---- MODULE Spec2Model ----
(***************************************************************************)
(* Model of the bdm donation ledger (bdm/donate.py) and of the PayPal IPN  *)
(* webhook pipeline (bdm/resource.py, class PayPal).                       *)
(*                                                                         *)
(* Amounts are point2decimal values, held as integers in hundredths.       *)
(* The Twisted reactor runs one callback at a time, so render_POST and the *)
(* callback chain fired by the verification response are each one step.    *)
(***************************************************************************)
EXTENDS Integers, FiniteSets, Sequences, TLC

VARIABLES donators, donations, powerups, nextID, inflight, nreq, last,
          settled, stats

vars == <<donators, donations, powerups, nextID, inflight, nreq, last,
          settled, stats>>

ledger == <<donators, donations>>

(* Bounds of the exploration *)
MaxRequests == 2

MaxInFlight == 2

MaxDeepRequests == 4

MaxPairRequests == 2

MaxTopRequests == 3

MaxLimit == 3

MaxServers == 3

(* Python's None *)
None == "<None>"

(* ---------------------------------------------------------------------- *)
(* Inputs: the form fields of an IPN notification (request.args)          *)
(* ---------------------------------------------------------------------- *)

Txns == {"T1", "T2"}

(* custom = base64(json({anonymous, steamid})); <<"garbage">> is a value *)
(* that does not decode                                                   *)
Custom(anonymous, steamid) == <<"b64json", anonymous, steamid>>

CompletedArgs ==
    { [payment_status |-> "Completed", txn_id |-> t, mc_gross |-> "10.00",
       custom |-> Custom(FALSE, "STEAM_0:0:1")] : t \in Txns }
    \cup
    { [payment_status |-> "Completed", txn_id |-> "T1", mc_gross |-> a,
       custom |-> Custom(FALSE, "STEAM_0:0:1")] : a \in {"abc", "-5.00"} }
    \cup
    { [payment_status |-> "Completed", txn_id |-> "T1", mc_gross |-> "10.00",
       custom |-> Custom(FALSE, s)] : s \in {None, "", "bogus"} }
    \cup
    { [payment_status |-> "Completed", txn_id |-> "T1", mc_gross |-> "10.00",
       custom |-> Custom(TRUE, s)] : s \in {None, "STEAM_0:0:1"} }
    \cup
    { [payment_status |-> "Completed", txn_id |-> "T2", mc_gross |-> "10.00",
       settle_amount |-> "2.50", custom |-> Custom(FALSE, "STEAM_0:1:1")],
      [payment_status |-> "Completed", txn_id |-> "T2",
       settle_amount |-> "2.50", custom |-> Custom(FALSE, "STEAM_0:1:1")],
      [payment_status |-> "Completed", txn_id |-> "T2", mc_gross |-> "10.00",
       custom |-> <<"garbage">>] }

OtherArgs ==
    { [payment_status |-> st, parent_txn_id |-> t] :
          st \in {"Refunded", "Reversed"}, t \in Txns }
    \cup
    { [payment_status |-> "Refunded"],
      [payment_status |-> "Canceled_Reversal", parent_txn_id |-> "T1"],
      [payment_status |-> "Pending", txn_id |-> "T1", mc_gross |-> "10.00",
       custom |-> Custom(FALSE, "STEAM_0:0:1")],
      [txn_id |-> "T1"] }

Args == CompletedArgs \cup OtherArgs

DeepArgs ==
    { [payment_status |-> "Completed", txn_id |-> t, mc_gross |-> "10.00",
       custom |-> Custom(FALSE, "STEAM_0:0:1")] : t \in Txns }
    \cup
    { [payment_status |-> "Completed", txn_id |-> "T2", mc_gross |-> "10.00",
       settle_amount |-> "2.50", custom |-> Custom(FALSE, "STEAM_0:1:1")],
      [payment_status |-> "Refunded", parent_txn_id |-> "T1"],
      [payment_status |-> "Reversed", parent_txn_id |-> "T1"] }

PairArgs ==
    { [payment_status |-> "Completed", txn_id |-> "T1", mc_gross |-> "10.00",
       custom |-> Custom(FALSE, "STEAM_0:0:1")],
      [payment_status |-> "Completed", txn_id |-> "T2", mc_gross |-> "10.00",
       settle_amount |-> "2.50", custom |-> Custom(FALSE, "STEAM_0:1:1")],
      [payment_status |-> "Refunded", parent_txn_id |-> "T1"] }

TopArgs ==
    { [payment_status |-> "Completed", txn_id |-> "T1", mc_gross |-> "30.00",
       custom |-> Custom(FALSE, "STEAM_0:0:1")],
      [payment_status |-> "Completed", txn_id |-> "T2", mc_gross |-> "50.00",
       custom |-> Custom(FALSE, "STEAM_0:1:1")],
      [payment_status |-> "Completed", txn_id |-> "T1", mc_gross |-> "10.00",
       custom |-> Custom(FALSE, "STEAM_0:0:2")],
      [payment_status |-> "Completed", txn_id |-> "T2", mc_gross |-> "30.00",
       custom |-> Custom(FALSE, "STEAM_0:0:2")],
      [payment_status |-> "Completed", txn_id |-> "T2", mc_gross |-> "50.00",
       custom |-> Custom(TRUE, "STEAM_0:0:1")],
      [payment_status |-> "Completed", txn_id |-> "T1", mc_gross |-> "50.00",
       custom |-> Custom(FALSE, None)],
      [payment_status |-> "Completed", txn_id |-> "T2", mc_gross |-> "30.00",
       custom |-> Custom(FALSE, "")] }

(* What getPage delivers: a page body, or a failure of the call itself *)
Responses ==
    { [kind |-> "page", body |-> b] : b \in {"VERIFIED", "INVALID", ""} }
    \cup { [kind |-> "failure", body |-> "ConnectionRefusedError"] }

DeepResponses ==
    { [kind |-> "page", body |-> b] : b \in {"VERIFIED", "INVALID"} }

(* ---------------------------------------------------------------------- *)
(* Errors                                                                 *)
(* ---------------------------------------------------------------------- *)

NoError == [type |-> "", msg |-> "", arg |-> {}]

Raise(type, msg) == [type |-> type, msg |-> msg, arg |-> {}]

RaiseWith(type, msg, arg) == [type |-> type, msg |-> msg, arg |-> {arg}]

(* ---------------------------------------------------------------------- *)
(* Conversions                                                            *)
(* ---------------------------------------------------------------------- *)

(* str.lower() on the status strings in use *)
lower(s) ==
    CASE s = "Completed" -> "completed"
      [] s = "Refunded" -> "refunded"
      [] s = "Reversed" -> "reversed"
      [] s = "Canceled_Reversal" -> "canceled_reversal"
      [] s = "Pending" -> "pending"
      [] OTHER -> s

(* Decimal(amount) as a point2decimal attribute holds it, in hundredths: *)
(* the set of the value, empty when Decimal() raises InvalidOperation    *)
Decimal(amount) ==
    CASE amount = "10.00" -> {1000}
      [] amount = "2.50" -> {250}
      [] amount = "30.00" -> {3000}
      [] amount = "50.00" -> {5000}
      [] amount = "-5.00" -> {-500}
      [] OTHER -> {}

(* A resolver that accepts any text and hands it back *)
steamidTo64_lenient(steamid) ==
    CASE steamid = "STEAM_0:0:1" -> "76561197960265730"
      [] steamid = "STEAM_0:1:1" -> "76561197960265731"
      [] steamid = "STEAM_0:0:2" -> "76561197960265732"
      [] OTHER -> steamid

(* unicode(ValveSteamID.from_text(steamid).as_64()); None when from_text *)
(* raises                                                                *)
steamidTo64(steamid) ==
    CASE steamid = "STEAM_0:0:1" -> "76561197960265730"
      [] steamid = "STEAM_0:1:1" -> "76561197960265731"
      [] steamid = "STEAM_0:0:2" -> "76561197960265732"
      [] OTHER -> None

(* json.loads(b64decode(custom)); marked undecodable when decoding raises *)
loadCustom(custom) ==
    IF custom[1] = "b64json"
    THEN [anonymous |-> custom[2], steamid |-> custom[3]]
    ELSE [anonymous |-> FALSE, steamid |-> None, undecodable |-> TRUE]

(* ---------------------------------------------------------------------- *)
(* The store: Donator and Donation items, and the powerup connectors that *)
(* link a Donation to its Donator                                         *)
(* ---------------------------------------------------------------------- *)

Store == [donators |-> donators, donations |-> donations,
          powerups |-> powerups, nextID |-> nextID]

RECURSIVE SumAmounts(_)
SumAmounts(S) ==
    IF S = {} THEN 0
    ELSE LET d == CHOOSE e \in S : TRUE
         IN  d.amount + SumAmounts(S \ {d})

(* Donator.donations: powerupsFor(IDonation). A connector whose powerup *)
(* was deleted reads as None and is dropped from the store.             *)
donationsOf(s, donator) ==
    { d \in s.donations :
        \E c \in s.powerups : c.item = donator /\ c.powerup = d.storeID }

stalePowerups(s, donator) ==
    { c \in s.powerups :
        c.item = donator /\ ~ \E d \in s.donations : d.storeID = c.powerup }

getDonationAmount(s, donator) == SumAmounts(donationsOf(s, donator))

calculateTotal(s, donator) ==
    [s EXCEPT
       !.donators = { IF D.storeID = donator
                      THEN [D EXCEPT !.totalAmount = getDonationAmount(s, donator)]
                      ELSE D : D \in s.donators },
       !.powerups = s.powerups \ stalePowerups(s, donator)]

installOn(s, donation, donator) ==
    LET linked == [s EXCEPT
                     !.donations = { IF d.storeID = donation
                                     THEN [d EXCEPT !.donator = donator]
                                     ELSE d : d \in s.donations },
                     !.powerups = s.powerups \cup
                                  {[item |-> donator, powerup |-> donation]}]
    IN  calculateTotal(linked, donator)

(* An addDonation that skips a transaction ID the donator already has *)
addDonation_idempotent(s, donator, amount, paypalID) ==
    IF \E d \in s.donations : d.paypalID = paypalID /\ d.donator = donator
    THEN s
    ELSE installOn([s EXCEPT
                      !.donations = s.donations \cup
                          {[storeID |-> s.nextID, amount |-> amount,
                            date |-> s.nextID,
                            paypalID |-> paypalID, donator |-> 0]},
                      !.nextID = s.nextID + 1], s.nextID, donator)

addDonation(s, donator, amount, paypalID) ==
    LET created == [s EXCEPT
                      !.donations = s.donations \cup
                          {[storeID |-> s.nextID, amount |-> amount,
                            date |-> s.nextID,
                            paypalID |-> paypalID, donator |-> 0]},
                      !.nextID = s.nextID + 1]
    IN  installOn(created, s.nextID, donator)

(* A deleteFromStore that removes a donator left without Donations *)
deleteFromStore_cascade(s, donation) ==
    LET d == CHOOSE e \in s.donations : e.storeID = donation
        deleted == [s EXCEPT !.donations = s.donations \ {d}]
        t == calculateTotal(deleted, d.donator)
    IN  IF \E e \in t.donations : e.donator = d.donator THEN t
        ELSE [t EXCEPT !.donators =
                         { D \in t.donators : D.storeID # d.donator }]

(* A deleteFromStore that forgets donator.calculateTotal() *)
deleteFromStore_noRecalc(s, donation) ==
    LET d == CHOOSE e \in s.donations : e.storeID = donation
    IN  [s EXCEPT !.donations = s.donations \ {d}]

deleteFromStore(s, donation) ==
    LET d == CHOOSE e \in s.donations : e.storeID = donation
        deleted == [s EXCEPT !.donations = s.donations \ {d}]
    IN  calculateTotal(deleted, d.donator)

(* store.query(Donation, Donation.paypalID == ref) *)
query(s, paypalID) == { d \in s.donations : d.paypalID = paypalID }

(* ItemQuery.deleteFromStore(): Donation overrides deleteFromStore, so *)
(* every item the query finds is deleted through its own method        *)
RECURSIVE queryDeleteFromStore(_, _)
queryDeleteFromStore(s, ids) ==
    IF ids = {} THEN s
    ELSE LET i == CHOOSE j \in ids : \A k \in ids : j <= k
         IN  queryDeleteFromStore(deleteFromStore(s, i), ids \ {i})

(* A findOrCreate that matches on steamID alone *)
findOrCreate_bySteamID(s, steamID, anonymous) ==
    LET found == { D \in s.donators : D.steamID = steamID }
    IN  IF found # {}
        THEN [store |-> s,
              donator |-> (CHOOSE D \in found :
                             \A E \in found : D.storeID <= E.storeID).storeID]
        ELSE [store |-> [s EXCEPT
                           !.donators = s.donators \cup
                               {[storeID |-> s.nextID, steamID |-> steamID,
                                 anonymous |-> anonymous, totalAmount |-> 0]},
                           !.nextID = s.nextID + 1],
              donator |-> s.nextID]

(* store.findOrCreate(Donator, steamID=..., anonymous=...) *)
findOrCreate(s, steamID, anonymous) ==
    LET found == { D \in s.donators :
                     D.steamID = steamID /\ D.anonymous = anonymous }
    IN  IF found # {}
        THEN [store |-> s,
              donator |-> (CHOOSE D \in found :
                             \A E \in found : D.storeID <= E.storeID).storeID]
        ELSE [store |-> [s EXCEPT
                           !.donators = s.donators \cup
                               {[storeID |-> s.nextID, steamID |-> steamID,
                                 anonymous |-> anonymous, totalAmount |-> 0]},
                           !.nextID = s.nextID + 1],
              donator |-> s.nextID]

(* ---------------------------------------------------------------------- *)
(* DonationAPI: the read side                                             *)
(* ---------------------------------------------------------------------- *)

(* str() of a Decimal: the text of the value *)
str(amount) == <<"str", amount>>

donationToDict(s, donation) ==
    LET owner == { D \in s.donators : D.storeID = donation.donator }
    IN  [donator |-> IF owner = {} THEN None
                     ELSE (CHOOSE D \in owner : TRUE).steamID,
         amount |-> str(donation.amount),
         date |-> donation.date]

donatorToDict(donator) ==
    [steamID |-> donator.steamID, amount |-> str(donator.totalAmount)]

(* DonationAPI.steamID: findUnique on Donator.steamID, ItemNotFound turned *)
(* into BloodyError; the dicts of donator.donations, whose order the       *)
(* powerup query leaves open                                               *)
DonationAPI_steamID(s, steamid) ==
    LET found == { D \in s.donators : D.steamID = steamid }
    IN  IF found = {}
        THEN [err |-> Raise("BloodyError", "SteamID '%s' not found."),
              result |-> {}]
        ELSE IF Cardinality(found) > 1
        THEN [err |-> Raise("DuplicateUniqueItem", steamid), result |-> {}]
        ELSE [err |-> NoError,
              result |-> { donationToDict(s, d) :
                             d \in donationsOf(s,
                                     (CHOOSE D \in found : TRUE).storeID) }]

(* The orders a descending sort on totalAmount can give: equal totals may *)
(* come out either way                                                    *)
RECURSIVE sortedDesc(_)
sortedDesc(S) ==
    IF S = {} THEN {<<>>}
    ELSE UNION { { <<D>> \o t : t \in sortedDesc(S \ {D}) } :
                 D \in { D \in S :
                           \A E \in S : E.totalAmount <= D.totalAmount } }

(* A query that sorts the wrong way round *)
RECURSIVE sortedAsc(_)
sortedAsc(S) ==
    IF S = {} THEN {<<>>}
    ELSE UNION { { <<D>> \o t : t \in sortedAsc(S \ {D}) } :
                 D \in { D \in S :
                           \A E \in S : E.totalAmount >= D.totalAmount } }

topQuery_ascending(s, limit) ==
    { SubSeq(q, 1, IF limit < Len(q) THEN limit ELSE Len(q)) :
        q \in sortedAsc({ D \in s.donators :
                            D.anonymous = FALSE /\ D.steamID # None }) }

(* store.query(Donator, AND(anonymous == False, steamID != None), *)
(*             sort=totalAmount.desc, limit=limit)                *)
topQuery(s, limit) ==
    { SubSeq(q, 1, IF limit < Len(q) THEN limit ELSE Len(q)) :
        q \in sortedDesc({ D \in s.donators :
                             D.anonymous = FALSE /\ D.steamID # None }) }

(* getPlayerSummaries._cb: the players of the Steam response by steamid *)
playersOf(response) ==
    [p \in { pl.steamid : pl \in response } |->
        CHOOSE pl \in response : pl.steamid = p]

(* DonationAPI.getTop, given the response of the Steam lookup: every *)
(* outcome the query order allows                                    *)
getTop(s, limit, response) ==
    { LET info == playersOf(response)
      IN  IF \E i \in 1..Len(q) : q[i].steamID \notin DOMAIN info
          THEN [err |-> Raise("KeyError", "steamID"), result |-> <<>>]
          ELSE [err |-> NoError,
                result |-> [i \in 1..Len(q) |->
                              [steamID |-> q[i].steamID,
                               amount |-> str(q[i].totalAmount),
                               steamid |-> info[q[i].steamID].steamid,
                               personaname |->
                                   info[q[i].steamID].personaname]]]
      : q \in topQuery(s, limit) }

(* ---------------------------------------------------------------------- *)
(* DonationAPI.serverStats                                                *)
(* ---------------------------------------------------------------------- *)

(* The servers of a request: [host, port, location] *)
Servers == { <<"10.0.0.1", "27015", "EU">>, <<"10.0.0.2", "27015", "US">> }

RECURSIVE SeqsUpTo(_, _)
SeqsUpTo(S, n) ==
    IF n = 0 THEN {<<>>}
    ELSE LET shorter == SeqsUpTo(S, n - 1)
         IN  shorter \cup { Append(q, x) : q \in shorter, x \in S }

ServerLists == SeqsUpTo(Servers, MaxServers)

(* What a query of one server comes to: get_info() answers, or raises *)
(* NoResponseError after the timeout                                  *)
Outcomes == {"info", "NoResponseError"}

(* The answer of a server to get_info() *)
get_info(server) ==
    [server_name |-> IF server[1] = "10.0.0.1" THEN "bdm one" ELSE "bdm two",
     map |-> "cp_badlands", player_count |-> 12, max_players |-> 24]

(* A query thread that lets NoResponseError escape *)
_tx_noCatch(server, outcome) ==
    IF outcome = "info"
    THEN [err |-> NoError,
          value |-> {[server_name |-> get_info(server).server_name,
                      map |-> get_info(server).map,
                      player_count |-> get_info(server).player_count,
                      max_players |-> get_info(server).max_players,
                      online |-> TRUE,
                      location |-> server[3]]}]
    ELSE [err |-> Raise("NoResponseError", "Timed out awaiting response"),
          value |-> {}]

(* getInfo._tx: the live record, or the offline record on NoResponseError *)
_tx(server, outcome) ==
    IF outcome = "info"
    THEN [err |-> NoError,
          value |-> {[server_name |-> get_info(server).server_name,
                      map |-> get_info(server).map,
                      player_count |-> get_info(server).player_count,
                      max_players |-> get_info(server).max_players,
                      online |-> TRUE,
                      location |-> server[3]]}]
    ELSE [err |-> NoError,
          value |-> {[server_name |-> server[1],
                      online |-> FALSE,
                      location |-> server[3]]}]

(* No serverStats call yet *)
NoBatch ==
    [started |-> FALSE, servers |-> <<>>, pending |-> {}, resultList |-> <<>>,
     finishedCount |-> 0, fired |-> {}, outcomes |-> <<>>, order |-> <<>>]

(* gatherResults(deferreds, consumeErrors=True): a DeferredList with       *)
(* fireOnOneErrback over one Deferred per server; it fires at once on an   *)
(* empty list                                                              *)
gatherResults(servers) ==
    [started |-> TRUE, servers |-> servers,
     pending |-> 1..Len(servers),
     resultList |-> [i \in 1..Len(servers) |-> {}],
     finishedCount |-> 0,
     fired |-> IF Len(servers) = 0
               THEN {[err |-> NoError, result |-> <<>>]} ELSE {},
     outcomes |-> [i \in 1..Len(servers) |-> ""],
     order |-> <<>>]

(* DeferredList._cbDeferred for the Deferred at index, then               *)
(* _parseDListResult: the result is stored at its index; the first failure *)
(* fires the errback, the last result fires the callback with the values   *)
(* in list order                                                           *)
_cbDeferred(st, index, r) ==
    LET rl == [st.resultList EXCEPT ![index] = {r}]
        fc == st.finishedCount + 1
    IN  [st EXCEPT
           !.resultList = rl,
           !.finishedCount = fc,
           !.fired =
              IF st.fired # {} THEN st.fired
              ELSE IF r.err # NoError
              THEN {[err |-> Raise("FirstError", r.err.type),
                     result |-> <<>>]}
              ELSE IF fc = Len(rl)
              THEN {[err |-> NoError,
                     result |-> [k \in 1..Len(rl) |->
                        CHOOSE v \in (CHOOSE x \in rl[k] : TRUE).value :
                           TRUE]]}
              ELSE {}]

(* ---------------------------------------------------------------------- *)
(* PayPal: the event processor                                            *)
(* ---------------------------------------------------------------------- *)

Ok(s, logged) == [store |-> s, err |-> NoError, logged |-> logged]

Fail(s, e) == [store |-> s, err |-> e, logged |-> <<>>]

_payment_completed(s, data) ==
    IF "txn_id" \notin DOMAIN data THEN Fail(s, Raise("KeyError", "txn_id"))
    ELSE IF "mc_gross" \notin DOMAIN data
    THEN Fail(s, Raise("KeyError", "mc_gross"))
    ELSE IF "custom" \notin DOMAIN data
    THEN Fail(s, Raise("KeyError", "custom"))
    ELSE
    LET amount == IF "settle_amount" \in DOMAIN data
                  THEN data.settle_amount ELSE data.mc_gross
        custom == loadCustom(data.custom)
    IN  IF "undecodable" \in DOMAIN custom
        THEN Fail(s, Raise("TypeError", "Incorrect padding"))
        ELSE
        LET truthy == custom.steamid # None /\ custom.steamid # ""
            steamID == IF truthy THEN steamidTo64(custom.steamid)
                       ELSE custom.steamid
        IN  IF truthy /\ steamID = None
            THEN Fail(s, Raise("ValueError", "steamid"))
            ELSE
            LET foc == findOrCreate(s, steamID, custom.anonymous)
            IN  IF Decimal(amount) = {}
                THEN Fail(foc.store, Raise("InvalidOperation", amount))
                ELSE Ok(addDonation(foc.store, foc.donator,
                                    CHOOSE a \in Decimal(amount) : TRUE,
                                    data.txn_id), <<>>)

(* A refund that deletes the first Donation found only *)
_payment_refunded_first(s, data) ==
    IF "parent_txn_id" \notin DOMAIN data
    THEN Fail(s, Raise("KeyError", "parent_txn_id"))
    ELSE LET found == query(s, data.parent_txn_id)
         IN  IF found = {} THEN Ok(s, <<>>)
             ELSE Ok(deleteFromStore(s,
                       (CHOOSE d \in found :
                          \A e \in found : d.storeID <= e.storeID).storeID),
                     <<>>)

(* A refund that looks its Donation up with findUnique *)
_payment_refunded_strict(s, data) ==
    IF "parent_txn_id" \notin DOMAIN data
    THEN Fail(s, Raise("KeyError", "parent_txn_id"))
    ELSE LET found == query(s, data.parent_txn_id)
         IN  IF found = {}
             THEN Fail(s, Raise("ItemNotFound", data.parent_txn_id))
             ELSE Ok(queryDeleteFromStore(s, { d.storeID : d \in found }),
                     <<>>)

_payment_refunded(s, data) ==
    IF "parent_txn_id" \notin DOMAIN data
    THEN Fail(s, Raise("KeyError", "parent_txn_id"))
    ELSE LET found == query(s, data.parent_txn_id)
         IN  Ok(queryDeleteFromStore(s, { d.storeID : d \in found }), <<>>)

(* A reversal that takes the first Donation found when there are several *)
_payment_reversed_first(s, data) ==
    IF "parent_txn_id" \notin DOMAIN data
    THEN Fail(s, Raise("KeyError", "parent_txn_id"))
    ELSE LET found == query(s, data.parent_txn_id)
         IN  IF found = {}
             THEN Fail(s, Raise("ItemNotFound", data.parent_txn_id))
             ELSE Ok(deleteFromStore(s,
                       (CHOOSE d \in found :
                          \A e \in found : d.storeID <= e.storeID).storeID),
                     <<>>)

_payment_reversed(s, data) ==
    IF "parent_txn_id" \notin DOMAIN data
    THEN Fail(s, Raise("KeyError", "parent_txn_id"))
    ELSE LET found == query(s, data.parent_txn_id)
         IN  IF found = {}
             THEN Fail(s, Raise("ItemNotFound", data.parent_txn_id))
             ELSE IF Cardinality(found) > 1
             THEN Fail(s, Raise("DuplicateUniqueItem", data.parent_txn_id))
             ELSE Ok(deleteFromStore(s, (CHOOSE d \in found : TRUE).storeID),
                     <<>>)

_payment_canceled_reversal(s, data) ==
    Ok(s, <<"Reversal cancelled:", "data">>)

(* The attributes of PayPal named _payment_<status> *)
Handlers ==
    {"_payment_completed", "_payment_refunded", "_payment_reversed",
     "_payment_canceled_reversal"}

(* getattr(self, name) with no default: the attribute, or AttributeError *)
getattr(name) ==
    IF name \in Handlers
    THEN [method |-> name, err |-> NoError]
    ELSE [method |-> None, err |-> Raise("AttributeError", name)]

call(method, s, data) ==
    CASE method = "_payment_completed" -> _payment_completed(s, data)
      [] method = "_payment_refunded" -> _payment_refunded(s, data)
      [] method = "_payment_reversed" -> _payment_reversed(s, data)
      [] method = "_payment_canceled_reversal" ->
             _payment_canceled_reversal(s, data)

_process(s, data) ==
    IF "payment_status" \notin DOMAIN data
    THEN Fail(s, Raise("KeyError", "payment_status"))
    ELSE
    LET paymentStatus == lower(data.payment_status)
        got == getattr("_payment_" \o paymentStatus)
    IN  IF got.err # NoError THEN Fail(s, got.err)
        ELSE IF got.method # None THEN call(got.method, s, data)
        ELSE Ok(s, <<"Unknown payment status: " \o paymentStatus>>)

(* ---------------------------------------------------------------------- *)
(* PayPal: verification and the webhook endpoint                          *)
(* ---------------------------------------------------------------------- *)

(* A _cb that reports every response but VERIFIED as invalid IPN data *)
_cb_sameError(response, data) ==
    IF response = "VERIFIED"
    THEN [result |-> TRUE, err |-> NoError]
    ELSE [result |-> FALSE,
          err |-> RaiseWith("PaypalError", "IPN data invalid. data: %s", data)]

(* A _cb that takes every response but INVALID for a confirmation *)
_cb_lenient(response, data) ==
    IF response = "INVALID"
    THEN [result |-> FALSE,
          err |-> RaiseWith("PaypalError", "IPN data invalid. data: %s", data)]
    ELSE [result |-> TRUE, err |-> NoError]

(* verify._cb: TRUE, or the PaypalError raised *)
_cb(response, data) ==
    IF response = "INVALID"
    THEN [result |-> FALSE,
          err |-> RaiseWith("PaypalError", "IPN data invalid. data: %s", data)]
    ELSE IF response = "VERIFIED"
    THEN [result |-> TRUE, err |-> NoError]
    ELSE [result |-> FALSE,
          err |-> RaiseWith("PaypalError",
                            "Unrecognized verification response: %s",
                            [response |-> response])]

(* An errback that answers the request with an error status *)
errback_500(failure, response) ==
    [logged |-> <<"err">>, response |-> [code |-> 500, body |-> "error"]]

(* d.addErrback(log.err): the failure is logged; the request, already *)
(* answered, is left alone                                             *)
errback(failure, response) ==
    [logged |-> <<"err">>, response |-> response]

(* The Deferred of render_POST once getPage has fired: verify._cb, then *)
(* the _process callback, then the log.err errback                      *)
chain(s, resp, data, response) ==
    LET verified == IF resp.kind = "page" THEN _cb(resp.body, data)
                    ELSE [result |-> FALSE,
                          err |-> Raise("Failure", resp.body)]
    IN  IF verified.err # NoError
        THEN [store |-> s, err |-> verified.err, processed |-> FALSE,
              logged |-> errback(verified.err, response).logged,
              response |-> errback(verified.err, response).response]
        ELSE LET p == _process(s, data)
             IN  IF p.err # NoError
                 THEN [store |-> p.store, err |-> p.err, processed |-> TRUE,
                       logged |-> errback(p.err, response).logged,
                       response |-> errback(p.err, response).response]
                 ELSE [store |-> p.store, err |-> p.err, processed |-> TRUE,
                       logged |-> p.logged, response |-> response]

NoStep ==
    [op |-> "", seq |-> 0, args |-> [payment_status |-> ""],
     resp |-> [kind |-> "", body |-> ""], processed |-> FALSE,
     err |-> NoError, logged |-> <<>>, response |-> [code |-> 0, body |-> ""],
     matches |-> 0]

Init ==
    /\ donators = {}
    /\ donations = {}
    /\ powerups = {}
    /\ nextID = 1
    /\ inflight = {}
    /\ nreq = 0
    /\ last = NoStep
    /\ settled = {}
    /\ stats = NoBatch

(* render_POST: logs the notification, starts the verification call and *)
(* returns '' (Twisted answers 200 with that body)                      *)
render_POST(args) ==
    /\ Cardinality(inflight) < MaxInFlight
    /\ nreq' = nreq + 1
    /\ inflight' = inflight \cup
           {[seq |-> nreq + 1, args |-> args,
             response |-> [code |-> 200, body |-> ""]]}
    /\ last' = [NoStep EXCEPT !.op = "render_POST", !.seq = nreq + 1,
                              !.args = args,
                              !.logged = <<"Paypal callback:", "args">>,
                              !.response = [code |-> 200, body |-> ""]]
    /\ UNCHANGED <<donators, donations, powerups, nextID, settled, stats>>

(* A pipeline that handles verification results in arrival order only *)
verifyDone_inOrder(r, resp) ==
    /\ r \in inflight
    /\ \A q \in inflight : r.seq <= q.seq
    /\ LET c == chain(Store, resp, r.args, r.response)
       IN  /\ donators' = c.store.donators
           /\ donations' = c.store.donations
           /\ powerups' = c.store.powerups
           /\ nextID' = c.store.nextID
           /\ last' = [op |-> "verifyDone", seq |-> r.seq, args |-> r.args,
                       resp |-> resp, processed |-> c.processed,
                       err |-> c.err, logged |-> c.logged,
                       response |-> c.response,
                       matches |-> IF "parent_txn_id" \in DOMAIN r.args
                                   THEN Cardinality(
                                          { d \in donations :
                                              d.paypalID = r.args.parent_txn_id })
                                   ELSE 0]
           /\ settled' = IF c.processed /\ "parent_txn_id" \in DOMAIN r.args
                          THEN settled \cup
                               {[seq |-> r.seq, parent |-> r.args.parent_txn_id]}
                          ELSE settled
    /\ inflight' = inflight \ {r}
    /\ UNCHANGED <<nreq, stats>>

(* The verification call of request r ends with resp: the callback chain *)
(* runs to its end. settled is a history of the refund and reversal      *)
(* notifications that were processed, kept for the ordering property.    *)
verifyDone(r, resp) ==
    /\ r \in inflight
    /\ LET c == chain(Store, resp, r.args, r.response)
       IN  /\ donators' = c.store.donators
           /\ donations' = c.store.donations
           /\ powerups' = c.store.powerups
           /\ nextID' = c.store.nextID
           /\ last' = [op |-> "verifyDone", seq |-> r.seq, args |-> r.args,
                       resp |-> resp, processed |-> c.processed,
                       err |-> c.err, logged |-> c.logged,
                       response |-> c.response,
                       matches |-> IF "parent_txn_id" \in DOMAIN r.args
                                   THEN Cardinality(
                                          { d \in donations :
                                              d.paypalID = r.args.parent_txn_id })
                                   ELSE 0]
           /\ settled' = IF c.processed /\ "parent_txn_id" \in DOMAIN r.args
                          THEN settled \cup
                               {[seq |-> r.seq, parent |-> r.args.parent_txn_id]}
                          ELSE settled
    /\ inflight' = inflight \ {r}
    /\ UNCHANGED <<nreq, stats>>

Next ==
    \/ \E args \in Args : nreq < MaxRequests /\ render_POST(args)
    \/ \E r \in inflight, resp \in Responses : verifyDone(r, resp)

Spec == Init /\ [][Next]_vars

(* The same program driven by a few ledger-changing notifications only, *)
(* explored over longer runs                                            *)
NextDeep ==
    \/ \E args \in DeepArgs : nreq < MaxDeepRequests /\ render_POST(args)
    \/ \E r \in inflight, resp \in DeepResponses : verifyDone(r, resp)

SpecDeep == Init /\ [][NextDeep]_vars

(* The same program driven by notifications of two donators, for the *)
(* properties that ask what is enabled                               *)
NextPair ==
    \/ \E args \in PairArgs : nreq < MaxPairRequests /\ render_POST(args)
    \/ \E r \in inflight, resp \in DeepResponses : verifyDone(r, resp)

SpecPair == Init /\ [][NextPair]_vars

(* The same program driven by donations of several donators with *)
(* different amounts, for the donator ranking                    *)
NextTop ==
    \/ \E args \in TopArgs : nreq < MaxTopRequests /\ render_POST(args)
    \/ \E r \in inflight, resp \in DeepResponses : verifyDone(r, resp)

SpecTop == Init /\ [][NextTop]_vars

(* serverStats: one query per server handed to the thread pool, the *)
(* results gathered                                                 *)
serverStats(servers) ==
    /\ ~ stats.started
    /\ stats' = gatherResults(servers)
    /\ UNCHANGED <<donators, donations, powerups, nextID, inflight, nreq,
                   last, settled>>

(* The thread querying server i finishes and its Deferred fires in the *)
(* reactor                                                             *)
txDone(i, outcome) ==
    /\ i \in stats.pending
    /\ stats' =
          [_cbDeferred(stats, i, _tx(stats.servers[i], outcome)) EXCEPT
             !.pending = @ \ {i},
             !.outcomes = [@ EXCEPT ![i] = outcome],
             !.order = Append(@, i)]
    /\ UNCHANGED <<donators, donations, powerups, nextID, inflight, nreq,
                   last, settled>>

NextServers ==
    \/ \E servers \in ServerLists : serverStats(servers)
    \/ \E i \in stats.pending, outcome \in Outcomes : txDone(i, outcome)

SpecServers == Init /\ [][NextServers]_vars

(* ---------------------------------------------------------------------- *)
(* Properties                                                             *)
(* ---------------------------------------------------------------------- *)

VerifiedPage == [kind |-> "page", body |-> "VERIFIED"]

StatusOf(args) ==
    IF "payment_status" \in DOMAIN args THEN lower(args.payment_status)
    ELSE None

(* The last step ran the event processor *)
Processed == last.op = "verifyDone" /\ last.processed

ProcessedAs(status) == Processed /\ StatusOf(last.args) = status

(* The Donations carrying the parent transaction ID of args *)
MatchesFor(args) ==
    IF "parent_txn_id" \in DOMAIN args
    THEN { d \in donations : d.paypalID = args.parent_txn_id }
    ELSE {}

LinkedTo(D, ds) == { d \in ds : d.donator = D.storeID }

StoreIDs(S) == { x.storeID : x \in S }

(* Steam texts that ValveSteamID.from_text rejects *)
UnresolvableTexts == {"bogus"}

HasUnresolvableSteamID(args) ==
    /\ "custom" \in DOMAIN args
    /\ args.custom[1] = "b64json"
    /\ args.custom[3] \in UnresolvableTexts

EventAmount(args) ==
    IF "settle_amount" \in DOMAIN args THEN args.settle_amount
    ELSE args.mc_gross

OK200 == [code |-> 200, body |-> ""]

(* C1: after every call of addDonation and of removeDonation, each      *)
(* donator's totalAmount is the exact sum of the amounts of the          *)
(* Donations that refer to it, 0 when there are none.                    *)
C1_TotalIsSum ==
    \A D \in donators : D.totalAmount = SumAmounts(LinkedTo(D, donations))

(* A refund has deleted a Donation of a donator who keeps another one *)
C1_Witness ==
    /\ ProcessedAs("refunded")
    /\ last.matches >= 1
    /\ last.err = NoError
    /\ \E D \in donators :
          LinkedTo(D, donations) # {} /\ D.totalAmount > 0

(* C2: a notification whose verification did not answer exactly         *)
(* "VERIFIED" (an "INVALID" page, any other page, a failed call) never    *)
(* reaches the event processor and changes no Donator, no Donation and    *)
(* no totalAmount.                                                        *)
C2_OnlyVerifiedIsProcessed ==
    [][ (last'.op = "verifyDone" /\ last'.resp # VerifiedPage)
        => (~ last'.processed /\ donators' = donators
            /\ donations' = donations) ]_vars

(* A well-formed "completed" notification was answered "INVALID" *)
C2_Witness ==
    /\ last.op = "verifyDone"
    /\ last.resp = [kind |-> "page", body |-> "INVALID"]
    /\ last.args = [payment_status |-> "Completed", txn_id |-> "T1",
                    mc_gross |-> "10.00",
                    custom |-> Custom(FALSE, "STEAM_0:0:1")]
    /\ donations = {}

(* C3: processing a verified event is atomic: when it ends with an error *)
(* the ledger is what it was before the event, and no Donator was         *)
(* created that has no Donation.                                          *)
C3_AtomicPerEvent ==
    [][ (Processed' /\ last'.err # NoError)
        => (/\ donators' = donators
            /\ donations' = donations
            /\ \A D \in donators' :
                  D.storeID \notin StoreIDs(donators)
                  => LinkedTo(D, donations') # {}) ]_vars

(* C4: a verified "completed" event whose non-empty steamid cannot be    *)
(* resolved fails and records nothing: no Donation, no Donator, no total  *)
(* changes.                                                               *)
C4_UnresolvedSteamIDRecordsNothing ==
    [][ (ProcessedAs("completed")' /\ HasUnresolvableSteamID(last'.args))
        => (/\ last'.err # NoError
            /\ donators' = donators
            /\ donations' = donations) ]_vars

(* An unresolvable steamid was met with Donators already in the ledger *)
C4_Witness ==
    /\ ProcessedAs("completed")
    /\ HasUnresolvableSteamID(last.args)
    /\ last.err.type = "ValueError"
    /\ donators # {}

(* C5: every successfully processed "completed" event adds one Donation  *)
(* with its transaction ID and amount to the donator, whether or not the  *)
(* donator already has a Donation with that transaction ID, and raises    *)
(* the donator's totalAmount by the amount: the same event processed      *)
(* twice leaves two entries and twice the amount.                         *)
C5_NotIdempotent ==
    [][ (ProcessedAs("completed")' /\ last'.err = NoError)
        => LET t == last'.args.txn_id
               new == donations' \ donations
           IN  /\ Cardinality(new) = 1
               /\ donations \subseteq donations'
               /\ \A n \in new :
                    LET before == { D \in donators : D.storeID = n.donator }
                        old == IF before = {} THEN 0
                               ELSE (CHOOSE D \in before : TRUE).totalAmount
                        same(ds) == { d \in ds : d.paypalID = t
                                                 /\ d.donator = n.donator }
                    IN  /\ n.paypalID = t
                        /\ n.amount \in Decimal(EventAmount(last'.args))
                        /\ Cardinality(same(donations')) =
                               Cardinality(same(donations)) + 1
                        /\ \E D \in donators' :
                              /\ D.storeID = n.donator
                              /\ D.totalAmount = old + n.amount ]_vars

(* The same "completed" event has been processed twice *)
C5_Witness ==
    /\ ProcessedAs("completed")
    /\ last.err = NoError
    /\ \E D \in donators : \E d1, d2 \in LinkedTo(D, donations) :
          /\ d1.storeID # d2.storeID
          /\ d1.paypalID = last.args.txn_id
          /\ d2.paypalID = last.args.txn_id
          /\ d1.amount = d2.amount
          /\ LinkedTo(D, donations) = {d1, d2}
          /\ D.totalAmount = 2 * d1.amount

(* C6, as claimed: a verified "refunded" event whose parent transaction  *)
(* ID matches several Donations deletes exactly one of them.              *)
C6_DeletesExactlyOne ==
    [][ (ProcessedAs("refunded")' /\ Cardinality(MatchesFor(last'.args)) >= 2)
        => (/\ last'.err = NoError
            /\ donations' \subseteq donations
            /\ Cardinality(donations') = Cardinality(donations) - 1) ]_vars

(* C6, amended: a verified "refunded" event whose parent transaction ID  *)
(* matches several Donations deletes every one of them, without raising,  *)
(* leaves every Donation with another transaction ID in the ledger, and   *)
(* leaves each donator's total equal to the sum of its Donations.         *)
C6_DeletesEveryMatch ==
    [][ (ProcessedAs("refunded")' /\ Cardinality(MatchesFor(last'.args)) >= 2)
        => (/\ last'.err = NoError
            /\ donations' = donations \ MatchesFor(last'.args)
            /\ StoreIDs(donators') = StoreIDs(donators)
            /\ \A D \in donators' :
                  D.totalAmount = SumAmounts(LinkedTo(D, donations'))) ]_vars

(* A refund matched several Donations and another Donation is left *)
C6_Witness ==
    /\ ProcessedAs("refunded")
    /\ last.matches >= 2
    /\ last.err = NoError
    /\ donations # {}
    /\ \A d \in donations : d.paypalID # last.args.parent_txn_id

(* C7: a verified "reversed" event deletes a Donation only when exactly  *)
(* one Donation has the parent transaction ID; with none it fails with    *)
(* ItemNotFound, with two or more with DuplicateUniqueItem, and in both   *)
(* error cases no Donation is deleted and no total changes.               *)
C7_ReversedNeedsUniqueMatch ==
    [][ (ProcessedAs("reversed")' /\ "parent_txn_id" \in DOMAIN last'.args)
        => LET found == MatchesFor(last'.args)
           IN  /\ Cardinality(found) = 1
                  => (/\ last'.err = NoError
                      /\ donations' = donations \ found)
               /\ found = {}
                  => (/\ last'.err.type = "ItemNotFound"
                      /\ donations' = donations /\ donators' = donators)
               /\ Cardinality(found) >= 2
                  => (/\ last'.err.type = "DuplicateUniqueItem"
                      /\ donations' = donations
                      /\ donators' = donators) ]_vars

(* A reversal met two Donations with its parent transaction ID *)
C7_Witness ==
    /\ ProcessedAs("reversed")
    /\ last.matches >= 2
    /\ last.err.type = "DuplicateUniqueItem"
    /\ Cardinality(MatchesFor(last.args)) >= 2

(* C8: a verified "refunded" event whose parent transaction ID matches   *)
(* no Donation deletes nothing, changes no total, raises nothing, and the *)
(* webhook response stays the empty 200.                                  *)
C8_RefundWithoutMatchIsNoOp ==
    [][ (/\ ProcessedAs("refunded")'
         /\ "parent_txn_id" \in DOMAIN last'.args
         /\ MatchesFor(last'.args) = {})
        => (/\ last'.err = NoError
            /\ donations' = donations
            /\ donators' = donators
            /\ last'.response = OK200) ]_vars

(* A refund found no Donation in a ledger that holds some *)
C8_Witness ==
    /\ ProcessedAs("refunded")
    /\ "parent_txn_id" \in DOMAIN last.args
    /\ last.matches = 0
    /\ last.err = NoError
    /\ donations # {}

(* C9: a verified event whose lower-cased status is none of completed,   *)
(* refunded, reversed, canceled_reversal changes nothing in the ledger    *)
(* and takes the default branch of _process: nothing is raised and        *)
(* 'Unknown payment status' is logged.                                    *)
C9_UnknownStatusTakesDefaultBranch ==
    [][ (/\ Processed'
         /\ "payment_status" \in DOMAIN last'.args
         /\ StatusOf(last'.args) \notin
               {"completed", "refunded", "reversed", "canceled_reversal"})
        => (/\ donators' = donators
            /\ donations' = donations
            /\ last'.err = NoError
            /\ last'.logged = <<"Unknown payment status: "
                                 \o StatusOf(last'.args)>>) ]_vars

(* C10: every POST is answered with the empty 200 body, and nothing that *)
(* happens in verification or processing afterwards changes that answer.  *)
C10_AlwaysEmpty200 ==
    /\ \A r \in inflight : r.response = OK200
    /\ last.op # "" => last.response = OK200

(* The event processor raised after the POST was answered *)
C10_Witness ==
    /\ Processed
    /\ last.err # NoError
    /\ last.response = OK200

(* C11: with several notifications in flight and their verifications     *)
(* ending in any order, every state between two callbacks has each        *)
(* donator's totalAmount equal to the sum of its Donations, and the       *)
(* result of any in-flight notification can be handled at once: none      *)
(* waits for a notification that is still pending.                        *)
C11_SerializedAndIndependent ==
    /\ inflight # {}
       => \A D \in donators :
             D.totalAmount = SumAmounts(LinkedTo(D, donations))
    /\ \A r \in inflight : ENABLED verifyDone(r, VerifiedPage)

(* A donation was recorded while an earlier notification for another *)
(* donator was still being verified                                  *)
C11_Witness ==
    /\ ProcessedAs("completed")
    /\ last.err = NoError
    /\ \E r \in inflight :
          /\ r.seq < last.seq
          /\ StatusOf(r.args) = "completed"
          /\ r.args.custom # last.args.custom
    /\ \E D \in donators : D.totalAmount > 0

(* C12: after removeDonation of a Donation d of donator D, D's donation  *)
(* list no longer holds d and D.totalAmount is lower than before by       *)
(* exactly d.amount, strictly lower unless d.amount is 0.                 *)
C12_RemovalLowersTotal ==
    [][ (Processed' /\ Cardinality(donations \ donations') = 1)
        => \A d \in donations \ donations' :
             /\ d \notin donationsOf(Store', d.donator)
             /\ \A D \in donators : \A E \in donators' :
                   (D.storeID = d.donator /\ E.storeID = d.donator)
                   => (/\ E.totalAmount = D.totalAmount - d.amount
                       /\ d.amount # 0
                          => E.totalAmount < D.totalAmount) ]_vars

(* C13: Donator.totalAmount is non-negative in every reachable state of  *)
(* the ledger.                                                            *)
C13_TotalNonNegative ==
    \A D \in donators : D.totalAmount >= 0

(* C14: no step deletes a Donator or changes its identity, and a Donator *)
(* left without Donations stays in the ledger with totalAmount 0.         *)
C14_DonatorsOnlyGrow ==
    [][ \A D \in donators : \E E \in donators' :
          /\ E.storeID = D.storeID
          /\ E.steamID = D.steamID
          /\ E.anonymous = D.anonymous
          /\ LinkedTo(E, donations') = {} => E.totalAmount = 0 ]_vars

(* The only Donation of a donator was refunded or reversed *)
C14_Witness ==
    /\ Processed
    /\ StatusOf(last.args) \in {"refunded", "reversed"}
    /\ last.matches >= 1
    /\ last.err = NoError
    /\ donations = {}
    /\ \E D \in donators : D.totalAmount = 0

(* The steamID a "completed" event is filed under *)
KeyOf(args) ==
    LET c == loadCustom(args.custom)
    IN  IF c.steamid # None /\ c.steamid # "" THEN steamidTo64(c.steamid)
        ELSE c.steamid

KeyIDs == {None, "", "76561197960265730", "76561197960265731"}

(* C19: the ledger never holds two Donators with the same (steamID,      *)
(* anonymous) pair, None included; a "completed" event files its Donation *)
(* under the Donator of its own pair, the existing one when there is one; *)
(* and the Donator findOrCreate creates has totalAmount 0.                *)
C19_KeyedOnPair ==
    [][ /\ \A D, E \in donators' :
             (D.steamID = E.steamID /\ D.anonymous = E.anonymous)
             => D.storeID = E.storeID
        /\ (ProcessedAs("completed")' /\ last'.err = NoError)
           => LET sid == KeyOf(last'.args)
                  an == loadCustom(last'.args.custom).anonymous
                  old == { D \in donators :
                             D.steamID = sid /\ D.anonymous = an }
              IN  \E D \in donators' :
                    /\ D.steamID = sid /\ D.anonymous = an
                    /\ \A n \in donations' \ donations :
                          n.donator = D.storeID
                    /\ old # {}
                       => (/\ D.storeID \in StoreIDs(old)
                           /\ StoreIDs(donators') = StoreIDs(donators))
                    /\ old = {}
                       => (/\ D.storeID \notin StoreIDs(donators)
                           /\ StoreIDs(donators') =
                                 StoreIDs(donators) \cup {D.storeID})
        /\ \A sid \in KeyIDs, an \in BOOLEAN :
             LET foc == findOrCreate(Store, sid, an)
                 old == { D \in donators :
                            D.steamID = sid /\ D.anonymous = an }
                 new == foc.store.donators \ donators
             IN  /\ old # {} => (new = {} /\ foc.donator \in StoreIDs(old))
                 /\ old = {}
                    => new = {[storeID |-> foc.donator, steamID |-> sid,
                               anonymous |-> an, totalAmount |-> 0]}
      ]_vars

(* A second "completed" event of the same pair went to the one Donator *)
C19_Witness ==
    /\ ProcessedAs("completed")
    /\ last.err = NoError
    /\ Cardinality(donators) = 1
    /\ Cardinality(donations) = 2

(* C20: when a "completed" event for T was received before a "refunded"  *)
(* or "reversed" event with parent T and both have been processed, no     *)
(* Donation with paypalID T is left, whichever verification ended first.  *)
C20_RefundWinsWhateverTheOrder ==
    /\ (/\ Processed
        /\ StatusOf(last.args) \in {"refunded", "reversed"}
        /\ last.err = NoError
        /\ "parent_txn_id" \in DOMAIN last.args)
       => \A d \in donations : d.paypalID # last.args.parent_txn_id
    /\ (/\ ProcessedAs("completed")
        /\ last.err = NoError
        /\ \E h \in settled :
              h.parent = last.args.txn_id /\ h.seq > last.seq)
       => \A d \in donations : d.paypalID # last.args.txn_id

(* C17: the page the provider answers with is classified three ways:     *)
(* "VERIFIED" lets the notification through to the event processor,       *)
(* "INVALID" raises the PaypalError that carries the notification's data, *)
(* any other page raises a PaypalError that differs from that one; and    *)
(* the notification is finished by that one answer.                       *)
C17_ThreeOutcomes ==
    [][ (last'.op = "verifyDone" /\ last'.resp.kind = "page")
        => LET invalid == RaiseWith("PaypalError",
                                    "IPN data invalid. data: %s", last'.args)
               body == last'.resp.body
           IN  /\ body = "VERIFIED" => last'.processed
               /\ body = "INVALID"
                  => (~ last'.processed /\ last'.err = invalid)
               /\ body \notin {"VERIFIED", "INVALID"}
                  => (/\ ~ last'.processed
                      /\ last'.err.type = "PaypalError"
                      /\ last'.err.msg # invalid.msg
                      /\ last'.err.arg = {[response |-> body]})
               /\ \A r \in inflight' : r.seq # last'.seq
               /\ Cardinality(inflight') = Cardinality(inflight) - 1 ]_vars

(* The provider answered with a page that is neither word *)
C17_Witness ==
    /\ last.op = "verifyDone"
    /\ last.resp = [kind |-> "page", body |-> ""]
    /\ last.err.msg = "Unrecognized verification response: %s"
    /\ ~ last.processed

(* The steamids a profile page is asked for *)
QueryIDs == {"76561197960265730", "76561197960265731", "76561197960265739"}

(* C15: donatorDetail(platformID) returns all Donations attributed to    *)
(* that platformID, an empty list when the donator has none, and fails    *)
(* with the not-found error exactly when no Donator has the platformID.   *)
C15_DetailOrNotFound ==
    \A q \in QueryIDs :
       LET r == DonationAPI_steamID(Store, q)
           owners == { D \in donators : D.steamID = q }
       IN  /\ owners = {} <=> r.err.type = "BloodyError"
           /\ owners # {}
              => (/\ r.err = NoError
                  /\ r.result =
                        { donationToDict(Store, d) :
                            d \in { e \in donations :
                                      e.donator \in StoreIDs(owners) } })

(* The donators getTop may list *)
Eligible == { D \in donators : ~ D.anonymous /\ D.steamID # None }

(* What the Steam lookup may answer: the profiles of some of the ids *)
SteamResponses ==
    { { [steamid |-> i, personaname |-> "player"] : i \in X } :
        X \in SUBSET {"76561197960265730", "76561197960265731",
                      "76561197960265732"} }

TotalOf(sid) == (CHOOSE D \in Eligible : D.steamID = sid).totalAmount

AllProfiles ==
    { [steamid |-> i, personaname |-> "player"] :
        i \in {"76561197960265730", "76561197960265731",
               "76561197960265732"} }

C18_OneRecordPerServer ==
    /\ (stats.started /\ stats.pending = {}) => stats.fired # {}
    /\ \A f \in stats.fired :
          /\ stats.pending = {}
          /\ f.err = NoError
          /\ Len(f.result) = Len(stats.servers)
          /\ \A i \in 1..Len(stats.servers) :
                LET server == stats.servers[i]
                    rec == f.result[i]
                IN  /\ rec.location = server[3]
                    /\ rec.online = (stats.outcomes[i] = "info")
                    /\ stats.outcomes[i] = "info"
                       => (/\ DOMAIN rec = {"server_name", "map",
                                            "player_count", "max_players",
                                            "online", "location"}
                           /\ rec.server_name = get_info(server).server_name
                           /\ rec.map = get_info(server).map
                           /\ rec.player_count = get_info(server).player_count
                           /\ rec.max_players = get_info(server).max_players)
                    /\ stats.outcomes[i] = "NoResponseError"
                       => (/\ DOMAIN rec = {"server_name", "online",
                                            "location"}
                           /\ rec.server_name = server[1])

(* Two servers, the second finishes first and answers, the first gives no *)
(* response: the batch has fired with both records                        *)
C18_Witness ==
    /\ Len(stats.servers) = 2
    /\ stats.order = <<2, 1>>
    /\ stats.outcomes = <<"NoResponseError", "info">>
    /\ \E f \in stats.fired :
          /\ f.err = NoError
          /\ f.result[1].online = FALSE
          /\ f.result[2].online = TRUE

====
